---------------------------- MODULE Spec2Model ----------------------------
(***************************************************************************)
(* A model of the vulcan DMX controller: the Universe/Fade definitions,    *)
(* the BackupHandler that mirrors the universe to a Redis server, the      *)
(* SystemInterface dispatch loop, and the web callers that feed it through *)
(* WebSend.                                                                *)
(***************************************************************************)
EXTENDS Integers, Sequences, FiniteSets, TLC

(***************************************************************************)
(* Bounds of the model.                                                    *)
(***************************************************************************)
\* how many times the program is started (instances of SystemInterface)
MaxRuns == 2
\* how many requests the web callers submit, over all runs
MaxCommands == 2

\* the calls made on a backup handler that is used on its own
MaxCalls == 3

(***************************************************************************)
(* definitions/dmx.rs                                                      *)
(***************************************************************************)
\* pub const DMX_MAX: u32 = 512
DMX_MAX == 512

\* Option::None of Fade.duration
NoDuration == 0

\* struct Fade { channel, value, duration }
Fade(channel, value, duration) ==
    [channel |-> channel, value |-> value, duration |-> duration]

\* struct Universe { values: Vec<u8> }. The vector is kept as its length and
\* its non-zero entries, <<channel, value>> for values[channel - 1] = value:
\* every entry that is not listed is 0
Universe(len, levels) == [len |-> len, levels |-> levels]

\* values[channel - 1] of a vector that is long enough
At(universe, channel) ==
    IF \E entry \in universe.levels : entry[1] = channel
    THEN (CHOOSE entry \in universe.levels : entry[1] = channel)[2]
    ELSE 0

\* the whole vector, values[0] first
Values(universe) == [channel \in 1..universe.len |-> At(universe, channel)]

\* Universe::new: vec![0; DMX_MAX]
Universe_new == Universe(DMX_MAX, {})

\* Universe::get
get(universe, channel) ==
    IF (channel > DMX_MAX) \/ (channel < 1)
    THEN 0
    ELSE At(universe, channel)

\* a set whose bound is one channel too high
set_one_past(universe, channel, value) ==
    IF (channel <= DMX_MAX + 1) /\ (channel > 0)
    THEN Universe(universe.len,
                  {entry \in universe.levels : entry[1] # channel}
                      \cup (IF value = 0 THEN {} ELSE {<<channel, value>>}))
    ELSE universe

\* Universe::set
set(universe, channel, value) ==
    IF (channel <= DMX_MAX) /\ (channel > 0)
    THEN Universe(universe.len,
                  {entry \in universe.levels : entry[1] # channel}
                      \cup (IF value = 0 THEN {} ELSE {<<channel, value>>}))
    ELSE universe

\* self.values[channel as usize - 1] of get, past the end of the vector: the
\* index is out of bounds and the thread panics
get_panics(universe, channel) ==
    ~((channel > DMX_MAX) \/ (channel < 1)) /\ channel > universe.len

\* self.values[channel as usize - 1] = value of set, past the end of the vector
set_panics(universe, channel) ==
    ((channel <= DMX_MAX) /\ (channel > 0)) /\ channel > universe.len

\* Universe::as_bytes
as_bytes(universe) == Values(universe)

(***************************************************************************)
(* serde_yaml, as BackupHandler uses it. A string of the Redis server is   *)
(* either a YAML document "values:" with a list of numbers under it (kept, *)
(* like the vector, as its length and its non-zero entries) or other text. *)
(***************************************************************************)
\* serde_yaml::to_string(&self.universe): a Universe always serializes
to_string(universe) ==
    [ok |-> TRUE,
     string |-> [doc |-> "values", len |-> universe.len, list |-> universe.levels]]

\* serde_yaml::from_str::<Universe>: Ok when the document is a mapping with
\* the key "values" holding a list of u8, of whatever length
from_str(string) ==
    IF string.doc = "values" /\ \A entry \in string.list : entry[2] \in 0..255
    THEN [ok |-> TRUE, universe |-> Universe(string.len, string.list)]
    ELSE [ok |-> FALSE, universe |-> Universe(0, {})]

(***************************************************************************)
(* definitions/communication.rs                                            *)
(***************************************************************************)
\* mpsc::channel(256)
ChannelCapacity == 256

\* a universe that stands in the variants of Request that carry none
NoUniverse == Universe(0, {})

\* a fade that stands in the variants of Request that carry none
NoFade == Fade(0, 0, NoDuration)

\* enum Request, as the system and web interfaces use it
PlayFade(fade) == [type |-> "PlayFade", fade |-> fade, universe |-> NoUniverse]

LoadUniverse(universe) == [type |-> "LoadUniverse", fade |-> NoFade, universe |-> universe]

Close == [type |-> "Close", fade |-> NoFade, universe |-> NoUniverse]

\* WebReply::success
WebReply_success == [is_valid |-> TRUE, message |-> "Request completed."]

\* WebReply::failure
WebReply_failure(reason) == [is_valid |-> FALSE, message |-> reason]

\* WebReply::is_success
is_success(reply) == reply.is_valid

\* the value of a reply that was never sent
NoReply == [is_valid |-> FALSE, message |-> ""]

(***************************************************************************)
(* The inputs of the model.                                                *)
(***************************************************************************)
\* the listening addresses an instance is started with
Addresses == {"127.0.0.1:27655", "127.0.0.1:27656"}

\* the fades the callers submit: two on channel 1, one on channel 5
Fades == {Fade(1, 10, NoDuration), Fade(1, 20, NoDuration), Fade(5, 255, NoDuration)}

\* the universe of the backup_dmx test: channels 1 and 2 at 255
U0 == set(set(Universe_new, 1, 255), 2, 255)

\* the universes the callers submit
Universes == {U0}

\* a universe as the JSON body of /loadUniverse may give it: with_json
\* deserializes "values" into a Vec<u8> of the length it has in the body
ShortUniverse == Universe(3, {<<1, 255>>})

\* the universes the web interface accepts
WireUniverses == Universes \cup {ShortUniverse}

\* the requests the callers submit
Requests ==
    {PlayFade(fade) : fade \in Fades}
        \cup {LoadUniverse(u) : u \in Universes}
        \cup {Close}

\* the error descriptions of the DMX interface
DriverErrors == {"Unable to play fade."}


(***************************************************************************)
(* The Redis server: one string per key, or nothing.                       *)
(***************************************************************************)
\* a key that holds nothing
Nil == [doc |-> "nil", len |-> 0, list |-> {}]

\* a key that leaves the address out
Key_without_address(address) == <<"vulcan", "universe">>

\* format!("vulcan:{}:universe", self.address)
Key(address) == <<"vulcan", address, "universe">>

Keys == {Key(address) : address \in Addresses}

\* connection.set: the string is stored when the server answers
redis_set(store, key, string, reachable) ==
    IF reachable
    THEN [ok |-> TRUE, store |-> [store EXCEPT ![key] = string]]
    ELSE [ok |-> FALSE, store |-> store]

\* connection.get into a String: Ok only when the server answers with a string
redis_get(store, key, reachable) ==
    IF reachable /\ store[key] # Nil
    THEN [ok |-> TRUE, string |-> store[key]]
    ELSE [ok |-> FALSE, string |-> Nil]

\* connection.del: the key is removed when the server answers
redis_del(store, key, reachable) ==
    IF reachable
    THEN [ok |-> TRUE, store |-> [store EXCEPT ![key] = Nil]]
    ELSE [ok |-> FALSE, store |-> store]

(***************************************************************************)
(* The trace of an instance: what the dispatch task did, in order.         *)
(***************************************************************************)
Ev(kind, id, fade, universe, reply, ok, text) ==
    [kind |-> kind, id |-> id, fade |-> fade, universe |-> universe,
     reply |-> reply, ok |-> ok, text |-> text]

\* a Redis command of the trace, with its result and whether the server
\* answered it; a SET with the universe it carried
RedisEv(kind, universe, ok, answered) ==
    Ev(kind, 0, NoFade, universe, NoReply, ok, IF answered THEN "answered" ELSE "no answer")

(***************************************************************************)
(* system_interface/backup_handler.rs                                      *)
(***************************************************************************)
\* Option<String>::None of server_location
NoLocation == "None"

ServerLocations == {NoLocation, "redis://127.0.0.1:6379"}

\* BackupHandler::new; connects: Client::open and get_connection both succeed
BackupHandler_new(address, server_location, connects) ==
    IF server_location # NoLocation /\ connects
    THEN [address |-> address, connection |-> "Some", universe |-> Universe_new]
    ELSE [address |-> address, connection |-> "None", universe |-> Universe_new]

\* a backup_fade that serializes the universe before it adds the channel to it
backup_fade_stores_stale(self, store, fade, reachable) ==
    IF self.connection = "Some"
    THEN LET taken == [self EXCEPT !.connection = "None"]
             universe_string == to_string(taken.universe)
             updated == [taken EXCEPT !.universe = set(@, fade.channel, fade.value)]
             result == redis_set(store, Key(updated.address),
                                 universe_string.string, reachable)
         IN  [self |-> [updated EXCEPT !.connection = "Some"],
              store |-> result.store,
              commands |-> <<RedisEv("SET", taken.universe, result.ok, reachable)>>]
    ELSE [self |-> self, store |-> store, commands |-> <<>>]

\* a backup_fade that updates the universe of a handler without a connection
backup_fade_without_connection(self, store, fade, reachable) ==
    IF self.connection = "Some"
    THEN LET taken == [self EXCEPT !.connection = "None"]
             updated == [taken EXCEPT !.universe = set(@, fade.channel, fade.value)]
             universe_string == to_string(updated.universe)
             result == redis_set(store, Key(updated.address),
                                 universe_string.string, reachable)
         IN  [self |-> [updated EXCEPT !.connection = "Some"],
              store |-> result.store,
              commands |-> <<RedisEv("SET", updated.universe, result.ok, reachable)>>]
    ELSE [self |-> [self EXCEPT !.universe = set(@, fade.channel, fade.value)],
          store |-> store, commands |-> <<>>]

\* a backup_fade that puts the connection back only when the SET succeeded
backup_fade_loses_connection(self, store, fade, reachable) ==
    IF self.connection = "Some"
    THEN LET taken == [self EXCEPT !.connection = "None"]
             updated == [taken EXCEPT !.universe = set(@, fade.channel, fade.value)]
             universe_string == to_string(updated.universe)
             result == redis_set(store, Key(updated.address),
                                 universe_string.string, reachable)
         IN  [self |-> IF result.ok THEN [updated EXCEPT !.connection = "Some"] ELSE updated,
              store |-> result.store,
              commands |-> <<RedisEv("SET", updated.universe, result.ok, reachable)>>]
    ELSE [self |-> self, store |-> store, commands |-> <<>>]

\* a backup_fade that takes the fade back out of its universe when the SET
\* failed
backup_fade_rolls_back(self, store, fade, reachable) ==
    IF self.connection = "Some"
    THEN LET taken == [self EXCEPT !.connection = "None"]
             updated == [taken EXCEPT !.universe = set(@, fade.channel, fade.value)]
             universe_string == to_string(updated.universe)
             result == redis_set(store, Key(updated.address),
                                 universe_string.string, reachable)
         IN  [self |-> IF result.ok THEN [updated EXCEPT !.connection = "Some"] ELSE self,
              store |-> result.store,
              commands |-> <<RedisEv("SET", IF result.ok THEN updated.universe
                                            ELSE self.universe, result.ok, reachable)>>]
    ELSE [self |-> self, store |-> store, commands |-> <<>>]

\* BackupHandler::backup_fade; reachable: the server answers the SET
backup_fade(self, store, fade, reachable) ==
    IF self.connection = "Some"
    THEN LET taken == [self EXCEPT !.connection = "None"]
             updated == [taken EXCEPT !.universe = set(@, fade.channel, fade.value)]
             universe_string == to_string(updated.universe)
         IN  IF ~universe_string.ok
             THEN [self |-> [updated EXCEPT !.connection = "Some"],
                   store |-> store, commands |-> <<>>]
             ELSE LET result == redis_set(store, Key(updated.address),
                                          universe_string.string, reachable)
                  IN  [self |-> [updated EXCEPT !.connection = "Some"],
                       store |-> result.store,
                       commands |-> <<RedisEv("SET", updated.universe, result.ok, reachable)>>]
    ELSE [self |-> self, store |-> store, commands |-> <<>>]

\* a backup_universe that does not put the connection back
backup_universe_keeps_connection(self, store, universe, reachable) ==
    IF self.connection = "Some"
    THEN LET taken == [self EXCEPT !.connection = "None"]
             updated == [taken EXCEPT !.universe = universe]
             universe_string == to_string(updated.universe)
             result == redis_set(store, Key(updated.address),
                                 universe_string.string, reachable)
         IN  [self |-> updated,
              store |-> result.store,
              commands |-> <<RedisEv("SET", updated.universe, result.ok, reachable)>>]
    ELSE [self |-> self, store |-> store, commands |-> <<>>]

\* a backup_universe that lays the universe over the one the handler holds and
\* keeps the values of the channels the new one has at 0
backup_universe_over_old(self, store, universe, reachable) ==
    IF self.connection = "Some"
    THEN LET taken == [self EXCEPT !.connection = "None"]
             kept == {entry \in taken.universe.levels :
                         \A new \in universe.levels : new[1] # entry[1]}
             updated == [taken EXCEPT !.universe = Universe(universe.len,
                                                            kept \cup universe.levels)]
             universe_string == to_string(updated.universe)
             result == redis_set(store, Key(updated.address),
                                 universe_string.string, reachable)
         IN  [self |-> [updated EXCEPT !.connection = "Some"],
              store |-> result.store,
              commands |-> <<RedisEv("SET", updated.universe, result.ok, reachable)>>]
    ELSE [self |-> self, store |-> store, commands |-> <<>>]

\* BackupHandler::backup_universe
backup_universe(self, store, universe, reachable) ==
    IF self.connection = "Some"
    THEN LET taken == [self EXCEPT !.connection = "None"]
             updated == [taken EXCEPT !.universe = universe]
             universe_string == to_string(updated.universe)
         IN  IF ~universe_string.ok
             THEN [self |-> [updated EXCEPT !.connection = "Some"],
                   store |-> store, commands |-> <<>>]
             ELSE LET result == redis_set(store, Key(updated.address),
                                          universe_string.string, reachable)
                  IN  [self |-> [updated EXCEPT !.connection = "Some"],
                       store |-> result.store,
                       commands |-> <<RedisEv("SET", updated.universe, result.ok, reachable)>>]
    ELSE [self |-> self, store |-> store, commands |-> <<>>]

\* a reload_backup that returns the universe and does not save it
reload_backup_without_save(self, store, reachable) ==
    IF self.connection = "Some"
    THEN LET result == redis_get(store, Key(self.address), reachable)
         IN  IF result.ok
             THEN LET parsed == from_str(result.string)
                      universe == IF parsed.ok THEN parsed.universe ELSE Universe_new
                  IN  [self |-> self,
                       returned |-> [some |-> TRUE, universe |-> universe],
                       commands |-> <<RedisEv("GET", NoUniverse, TRUE, reachable)>>]
             ELSE [self |-> self,
                   returned |-> [some |-> FALSE, universe |-> NoUniverse],
                   commands |-> <<RedisEv("GET", NoUniverse, FALSE, reachable)>>]
    ELSE [self |-> self, returned |-> [some |-> FALSE, universe |-> NoUniverse],
          commands |-> <<>>]

\* a reload_backup that returns None for a string it cannot parse
reload_backup_parsed_only(self, store, reachable) ==
    IF self.connection = "Some"
    THEN LET taken == [self EXCEPT !.connection = "None"]
             result == redis_get(store, Key(taken.address), reachable)
         IN  IF result.ok /\ from_str(result.string).ok
             THEN LET universe == from_str(result.string).universe
                  IN  [self |-> [taken EXCEPT !.universe = universe, !.connection = "Some"],
                       returned |-> [some |-> TRUE, universe |-> universe],
                       commands |-> <<RedisEv("GET", NoUniverse, TRUE, reachable)>>]
             ELSE [self |-> [taken EXCEPT !.connection = "Some"],
                   returned |-> [some |-> FALSE, universe |-> NoUniverse],
                   commands |-> <<RedisEv("GET", NoUniverse, result.ok, reachable)>>]
    ELSE [self |-> self, returned |-> [some |-> FALSE, universe |-> NoUniverse],
          commands |-> <<>>]

\* BackupHandler::reload_backup; returned: Some(universe) or None
reload_backup(self, store, reachable) ==
    IF self.connection = "Some"
    THEN LET taken == [self EXCEPT !.connection = "None"]
             result == redis_get(store, Key(taken.address), reachable)
         IN  IF result.ok
             THEN LET parsed == from_str(result.string)
                      universe == IF parsed.ok THEN parsed.universe ELSE Universe_new
                  IN  [self |-> [taken EXCEPT !.universe = universe, !.connection = "Some"],
                       returned |-> [some |-> TRUE, universe |-> universe],
                       commands |-> <<RedisEv("GET", NoUniverse, TRUE, reachable)>>]
             ELSE [self |-> [taken EXCEPT !.connection = "Some"],
                   returned |-> [some |-> FALSE, universe |-> NoUniverse],
                   commands |-> <<RedisEv("GET", NoUniverse, FALSE, reachable)>>]
    ELSE [self |-> self, returned |-> [some |-> FALSE, universe |-> NoUniverse],
          commands |-> <<>>]

\* a drop whose DEL names a key that is not the key of the backup
BackupHandler_drop_other_key(self, store, reachable) ==
    IF self.connection = "Some"
    THEN [self |-> [self EXCEPT !.connection = "None"],
          store |-> store,
          commands |-> <<RedisEv("DEL", NoUniverse, reachable, reachable)>>]
    ELSE [self |-> self, store |-> store, commands |-> <<>>]

\* a drop that sends the DEL and leaves the connection in the handler
BackupHandler_drop_keeps_connection(self, store, reachable) ==
    IF self.connection = "Some"
    THEN LET result == redis_del(store, Key(self.address), reachable)
         IN  [self |-> self,
              store |-> result.store,
              commands |-> <<RedisEv("DEL", NoUniverse, result.ok, reachable)>>]
    ELSE [self |-> self, store |-> store, commands |-> <<>>]

\* impl Drop for BackupHandler; reachable: the server answers the DEL
BackupHandler_drop(self, store, reachable) ==
    IF self.connection = "Some"
    THEN LET result == redis_del(store, Key(self.address), reachable)
         IN  [self |-> [self EXCEPT !.connection = "None"],
              store |-> result.store,
              commands |-> <<RedisEv("DEL", NoUniverse, result.ok, reachable)>>]
    ELSE [self |-> self, store |-> store, commands |-> <<>>]

(***************************************************************************)
(* The state of the program and of the Redis server.                       *)
(***************************************************************************)
VARIABLES
    pc,              \* where the process is: off, running, stopped, dropping, exited, crashed
    runs,            \* how many instances have been started
    submitted,       \* how many requests the callers have submitted, over all runs
    store,           \* the Redis server: key -> string or Nil
    backup_handler,  \* SystemInterface.backup_handler: address, connection, universe
    web_receive,     \* SystemInterface.web_receive: the WebRequests queued in the channel
    oneshot,         \* the reply channel of each request of this instance, by request id
    arrived,         \* the WebRequests the channel accepted, in the order it accepted them
    events,          \* the trace of this instance
    previous         \* how the instance before this one ended, and what it left

vars == <<pc, runs, submitted, store, backup_handler, web_receive, oneshot,
          arrived, events, previous>>

\* struct WebRequest { reply_to, request }
WebRequest(reply_to, request) == [reply_to |-> reply_to, request |-> request]

\* the handler of a process that has not built one
NoHandler == [address |-> "", connection |-> "None", universe |-> NoUniverse]

\* the last universe a SET stored, in a trace (NoUniverse when none did)
RECURSIVE LastWritten(_)
LastWritten(trace) ==
    IF trace = <<>> THEN NoUniverse
    ELSE LET last == trace[Len(trace)]
         IN  IF last.kind = "SET" /\ last.ok THEN last.universe
             ELSE LastWritten(SubSeq(trace, 1, Len(trace) - 1))

\* what an instance leaves behind for the record of the next one; deleted:
\* its teardown deleted the backup
Left(how, deleted) ==
    [how |-> how, address |-> backup_handler.address,
     connection |-> backup_handler.connection, written |-> LastWritten(events),
     deleted |-> deleted]

Init ==
    /\ pc = "off"
    /\ runs = 0
    /\ submitted = 0
    /\ store = [key \in Keys |-> Nil]
    /\ backup_handler = NoHandler
    /\ web_receive = <<>>
    /\ oneshot = <<>>
    /\ arrived = <<>>
    /\ events = <<>>
    /\ previous = [how |-> "none", address |-> "", connection |-> "None",
                   written |-> NoUniverse, deleted |-> FALSE]

(***************************************************************************)
(* system_interface/mod.rs                                                 *)
(***************************************************************************)
\* the state the dispatch task works on
Sys == [backup_handler |-> backup_handler, store |-> store,
        oneshot |-> oneshot, events |-> events]

Log(sys, trace) == [sys EXCEPT !.events = @ \o trace]

\* DmxInterface::set_universe
dmx_set_universe(sys, id, universe) ==
    Log(sys, <<Ev("set_universe", id, NoFade, universe, NoReply, TRUE, "")>>)

\* DmxInterface::play_fade, with the result the interface gives
dmx_play_fade(sys, id, fade, result) ==
    Log(sys, <<Ev("play_fade", id, fade, NoUniverse, NoReply, result.ok, result.error)>>)

\* request.reply_to.send(reply).unwrap_or(()): the reply reaches a caller that
\* still holds the receiving end (listening); when the caller has gone away and
\* dropped it, the send fails and the failure is ignored
reply_to_send(sys, id, reply, listening) ==
    [sys EXCEPT
        !.oneshot[id] = IF listening
                        THEN [state |-> "sent", reply |-> reply]
                        ELSE [state |-> "abandoned", reply |-> NoReply],
        !.events = Append(@, Ev("reply", id, NoFade, NoUniverse, reply, listening, ""))]

\* a reply_to that is kept alive and never used
reply_to_kept(sys, id) == sys

\* a reply_to that goes out of scope unused: the caller's receiving end sees
\* the channel closed
reply_to_drop(sys, id) ==
    [sys EXCEPT !.oneshot[id] = IF @.state = "waiting"
                                THEN [state |-> "closed", reply |-> NoReply] ELSE @]

\* self.backup_handler.backup_fade(fade).await
call_backup_fade(sys, id, fade, reachable) ==
    LET done == backup_fade(sys.backup_handler, sys.store, fade, reachable)
    IN  [sys EXCEPT !.backup_handler = done.self, !.store = done.store,
                    !.events = @ \o <<Ev("backup_fade", id, fade, NoUniverse, NoReply, TRUE, "")>>
                                 \o done.commands]

\* self.backup_handler.backup_universe(universe).await
call_backup_universe(sys, id, universe, reachable) ==
    LET done == backup_universe(sys.backup_handler, sys.store, universe, reachable)
    IN  [sys EXCEPT !.backup_handler = done.self, !.store = done.store,
                    !.events = @ \o <<Ev("backup_universe", id, NoFade, universe, NoReply, TRUE, "")>>
                                 \o done.commands]

\* run_once for a PlayFade that saves the fade to the backup whether or not the
\* DMX interface took it
run_once_PlayFade_backs_up_rejected(sys, id, fade, result, reachable, listening) ==
    LET played == call_backup_fade(dmx_play_fade(sys, id, fade, result), id, fade, reachable)
    IN  IF ~result.ok
        THEN reply_to_send(played, id, WebReply_failure(result.error), listening)
        ELSE reply_to_send(played, id, WebReply_success, listening)

\* run_once for a PlayFade that answers with a failure when the backup of the
\* fade did not reach the server
run_once_PlayFade_reports_backup(sys, id, fade, result, reachable, listening) ==
    LET played == dmx_play_fade(sys, id, fade, result)
        saved == call_backup_fade(played, id, fade, reachable)
    IN  IF ~result.ok
        THEN reply_to_send(played, id, WebReply_failure(result.error), listening)
        ELSE IF saved.events[Len(saved.events)].kind = "SET"
                    /\ ~saved.events[Len(saved.events)].ok
             THEN reply_to_send(saved, id, WebReply_failure("Unable to save backup."),
                                listening)
             ELSE reply_to_send(saved, id, WebReply_success, listening)

\* run_once for a PlayFade that saves the fade to the backup before it gives
\* it to the DMX interface
run_once_PlayFade_backup_first(sys, id, fade, result, reachable, listening) ==
    LET saved == call_backup_fade(sys, id, fade, reachable)
        played == dmx_play_fade(saved, id, fade, result)
    IN  IF ~result.ok
        THEN reply_to_send(played, id, WebReply_failure(result.error), listening)
        ELSE reply_to_send(played, id, WebReply_success, listening)

\* run_once for a PlayFade that answers the caller as soon as the DMX
\* interface took the fade and saves the fade to the backup after that
run_once_PlayFade_answers_first(sys, id, fade, result, reachable, listening) ==
    LET played == dmx_play_fade(sys, id, fade, result)
    IN  IF ~result.ok
        THEN reply_to_send(played, id, WebReply_failure(result.error), listening)
        ELSE call_backup_fade(reply_to_send(played, id, WebReply_success, listening),
                              id, fade, reachable)

\* run_once, Request::PlayFade { fade }
run_once_PlayFade(sys, id, fade, result, reachable, listening) ==
    LET played == dmx_play_fade(sys, id, fade, result)
    IN  IF ~result.ok
        THEN reply_to_send(played, id, WebReply_failure(result.error), listening)
        ELSE reply_to_send(call_backup_fade(played, id, fade, reachable),
                           id, WebReply_success, listening)

\* run_once for a LoadUniverse that gives the request up when its caller has
\* gone away
run_once_LoadUniverse_for_listeners(sys, id, universe, reachable, listening) ==
    IF listening
    THEN reply_to_send(
             call_backup_universe(dmx_set_universe(sys, id, universe), id, universe, reachable),
             id, WebReply_success, listening)
    ELSE reply_to_send(sys, id, WebReply_success, listening)

\* run_once, Request::LoadUniverse { universe }
run_once_LoadUniverse(sys, id, universe, reachable, listening) ==
    reply_to_send(
        call_backup_universe(dmx_set_universe(sys, id, universe), id, universe, reachable),
        id, WebReply_success, listening)

\* run_once, Request::Close: return false; the request is dropped with its reply_to
run_once_Close(sys, id) == reply_to_drop(sys, id)

\* a channel that hands out the newest request first
recv_newest_first(queue) == queue[Len(queue)]

\* self.web_receive.recv(): the request at the head of the channel
recv(queue) == Head(queue)

\* a run whose loop does not break when run_once returns false
run_without_break(returned) == "running"

\* SystemInterface::run: the loop goes on while run_once returns true
run(returned) == IF returned THEN "running" ELSE "stopped"

\* run_once panics on the request: the DMX interface took the fade and the set
\* of backup_fade, made after the connection was taken, is out of bounds
Panics(request, result) ==
    /\ request.request.type = "PlayFade"
    /\ result.ok
    /\ backup_handler.connection = "Some"
    /\ set_panics(backup_handler.universe, request.request.fade.channel)

\* SystemInterface::run_once, and the test of its result in run
RunOnce(result, reachable, listening) ==
    /\ pc = "running"
    /\ web_receive # <<>>
    /\ ~Panics(recv(web_receive), result)
    /\ LET request == recv(web_receive)
           id == request.reply_to
           received == Log(Sys, <<Ev("recv", id, NoFade, NoUniverse, NoReply, TRUE,
                                     request.request.type)>>)
           done == CASE request.request.type = "PlayFade" ->
                            run_once_PlayFade(received, id, request.request.fade,
                                              result, reachable, listening)
                     [] request.request.type = "LoadUniverse" ->
                            run_once_LoadUniverse(received, id, request.request.universe,
                                                  reachable, listening)
                     [] request.request.type = "Close" ->
                            run_once_Close(received, id)
       IN  /\ web_receive' = SelectSeq(web_receive, LAMBDA r : r # request)
           /\ backup_handler' = done.backup_handler
           /\ store' = done.store
           /\ oneshot' = done.oneshot
           /\ events' = done.events
           /\ pc' = run(request.request.type # "Close")
    /\ UNCHANGED <<runs, submitted, arrived, previous>>

\* a new that reloads the backup into the backup handler and leaves the
\* hardware as it is
SystemInterface_new_without_load(address, server_location, connects, reachable) ==
    LET created == BackupHandler_new(address, server_location, connects)
        reloaded == reload_backup(created, store, reachable)
    IN  [backup_handler |-> reloaded.self, store |-> store, oneshot |-> <<>>,
         events |-> reloaded.commands
              \o <<Ev("reload_backup", 0, NoFade, reloaded.returned.universe,
                      NoReply, reloaded.returned.some, "")>>]

\* a new that takes the backup out of the store when it has reloaded it
SystemInterface_new_consumes_backup(address, server_location, connects, reachable) ==
    LET created == BackupHandler_new(address, server_location, connects)
        reloaded == reload_backup(created, store, reachable)
        called == [backup_handler |-> reloaded.self,
                   store |-> IF reloaded.returned.some
                             THEN redis_del(store, Key(address), TRUE).store
                             ELSE store,
                   oneshot |-> <<>>,
                   events |-> reloaded.commands
                        \o <<Ev("reload_backup", 0, NoFade, reloaded.returned.universe,
                                NoReply, reloaded.returned.some, "")>>]
    IN  IF reloaded.returned.some
        THEN dmx_set_universe(called, 0, reloaded.returned.universe)
        ELSE called

\* SystemInterface::new after DmxInterface::new succeeded: the backup handler is
\* built, the backup reloaded and, if there is one, loaded onto the hardware
SystemInterface_new(address, server_location, connects, reachable) ==
    LET created == BackupHandler_new(address, server_location, connects)
        reloaded == reload_backup(created, store, reachable)
        called == [backup_handler |-> reloaded.self, store |-> store, oneshot |-> <<>>,
                   events |-> reloaded.commands
                        \o <<Ev("reload_backup", 0, NoFade, reloaded.returned.universe,
                                NoReply, reloaded.returned.some, "")>>]
    IN  IF reloaded.returned.some
        THEN dmx_set_universe(called, 0, reloaded.returned.universe)
        ELSE called

\* the process is started: main, Vulcan::run and SystemInterface::new
New(address, server_location, connects, reachable) ==
    /\ pc \in {"off", "exited", "crashed", "fatal"}
    /\ runs < MaxRuns
    /\ LET built == SystemInterface_new(address, server_location, connects, reachable)
       IN  /\ backup_handler' = built.backup_handler
           /\ store' = built.store
           /\ events' = built.events
    /\ runs' = runs + 1
    /\ pc' = "running"
    /\ web_receive' = <<>>
    /\ oneshot' = <<>>
    /\ arrived' = <<>>
    /\ UNCHANGED <<submitted, previous>>

\* DmxInterface::new(&path)? fails: new returns the error and main panics on it
NewFailed ==
    /\ pc \in {"off", "exited", "crashed", "fatal"}
    /\ runs < MaxRuns
    /\ runs' = runs + 1
    /\ pc' = "fatal"
    /\ backup_handler' = NoHandler
    /\ events' = <<>>
    /\ web_receive' = <<>>
    /\ oneshot' = <<>>
    /\ arrived' = <<>>
    /\ UNCHANGED <<submitted, store, previous>>

\* run, after run_once returned false: drop(self) drops the fields of
\* SystemInterface in the order of their declaration. First web_receive: the
\* channel closes and the requests still queued are dropped with their reply_to
DropWebReceive ==
    /\ pc = "stopped"
    /\ pc' = "dropped_receive"
    /\ web_receive' = <<>>
    /\ oneshot' = [id \in DOMAIN oneshot |->
                      IF oneshot[id].state = "waiting"
                             /\ \E i \in DOMAIN web_receive : web_receive[i].reply_to = id
                      THEN [state |-> "closed", reply |-> NoReply]
                      ELSE oneshot[id]]
    /\ events' = Append(events, Ev("drop", 0, NoFade, NoUniverse, NoReply, TRUE, "web_receive"))
    /\ UNCHANGED <<runs, submitted, store, backup_handler, arrived, previous>>

\* then dmx_interface
DropDmxInterface ==
    /\ pc = "dropped_receive"
    /\ pc' = "dropped_dmx"
    /\ events' = Append(events, Ev("drop", 0, NoFade, NoUniverse, NoReply, TRUE, "dmx_interface"))
    /\ UNCHANGED <<runs, submitted, store, backup_handler, web_receive, oneshot,
                   arrived, previous>>

\* then backup_handler, whose Drop deletes the backup; run returns and the
\* process ends
DropBackupHandler(reachable) ==
    /\ pc = "dropped_dmx"
    /\ pc' = "exited"
    /\ LET dropped == BackupHandler_drop(backup_handler, store, reachable)
       IN  /\ backup_handler' = dropped.self
           /\ store' = dropped.store
           /\ events' = (events \o dropped.commands)
                  \o <<Ev("drop", 0, NoFade, NoUniverse, NoReply, TRUE, "backup_handler")>>
    /\ previous' = Left("exited", \E i \in DOMAIN events' :
                                      events'[i].kind = "DEL" /\ events'[i].ok)
    /\ UNCHANGED <<runs, submitted, web_receive, oneshot, arrived>>

\* the process is killed or loses power: nothing is dropped, and what the
\* process held in memory is gone
Crash ==
    /\ pc \in {"running", "no_senders", "stopped", "dropped_receive", "dropped_dmx"}
    /\ pc' = "crashed"
    /\ previous' = Left("crashed", FALSE)
    /\ backup_handler' = NoHandler
    /\ web_receive' = <<>>
    /\ oneshot' = <<>>
    /\ arrived' = <<>>
    /\ events' = <<>>
    /\ UNCHANGED <<runs, submitted, store>>

\* run_once panics in backup_fade: the connection it took is dropped with the
\* frame, the handler is left without one, so that its drop sends no DEL; no
\* reply is sent and the process ends with what it had written on the server
RunOncePanics(result) ==
    /\ pc = "running"
    /\ web_receive # <<>>
    /\ Panics(recv(web_receive), result)
    /\ pc' = "crashed"
    /\ previous' = Left("panicked", FALSE)
    /\ backup_handler' = NoHandler
    /\ web_receive' = <<>>
    /\ oneshot' = <<>>
    /\ arrived' = <<>>
    /\ events' = <<>>
    /\ UNCHANGED <<runs, submitted, store>>

(***************************************************************************)
(* web_interface/mod.rs and WebSend                                        *)
(***************************************************************************)
\* WebInterface::handle_request up to rx.await: a oneshot channel is made and
\* WebSend::send puts the request in the channel; when the receiver is gone the
\* send fails silently and the reply_to is dropped with the request
Submit(request) ==
    /\ pc \in {"running", "stopped", "dropped_receive", "dropped_dmx"}
    /\ submitted < MaxCommands
    /\ submitted' = submitted + 1
    /\ LET id == Len(oneshot) + 1
       IN  IF pc \in {"running", "stopped"}
           THEN /\ Len(web_receive) < ChannelCapacity
                /\ web_receive' = Append(web_receive, WebRequest(id, request))
                /\ arrived' = Append(arrived, WebRequest(id, request))
                /\ oneshot' = Append(oneshot, [state |-> "waiting", reply |-> NoReply])
           ELSE /\ oneshot' = Append(oneshot, [state |-> "closed", reply |-> NoReply])
                /\ UNCHANGED <<web_receive, arrived>>
    /\ UNCHANGED <<pc, runs, store, backup_handler, events, previous>>

\* what handle_request answers: the status of the HTTP response
http_status(channel) ==
    CASE channel.state = "sent" /\ is_success(channel.reply) -> "OK"
      [] channel.state = "sent" /\ ~is_success(channel.reply) -> "BAD_REQUEST"
      [] channel.state = "closed" -> "INTERNAL_SERVER_ERROR"
      [] OTHER -> "none"

\* the results DmxInterface::play_fade gives
DriverResults ==
    {[ok |-> TRUE, error |-> ""]} \cup {[ok |-> FALSE, error |-> e] : e \in DriverErrors}

Next ==
    \/ \E address \in Addresses, server_location \in ServerLocations,
          connects \in BOOLEAN, reachable \in BOOLEAN :
            New(address, server_location, connects, reachable)
    \/ NewFailed
    \/ \E request \in Requests : Submit(request)
    \/ \E result \in DriverResults, reachable \in BOOLEAN, listening \in BOOLEAN :
            RunOnce(result, reachable, listening)
    \/ DropWebReceive
    \/ DropDmxInterface
    \/ \E reachable \in BOOLEAN : DropBackupHandler(reachable)
    \/ Crash

Spec == Init /\ [][Next]_vars

\* the same, with the dispatch task scheduled: while a request is in the
\* channel and the loop runs, run_once comes to take one, and when run has
\* left the loop, drop(self) comes to drop web_receive
SpecFair ==
    /\ Init
    /\ [][Next]_vars
    /\ WF_vars(\E result \in DriverResults, reachable \in BOOLEAN, listening \in BOOLEAN :
                  RunOnce(result, reachable, listening))
    /\ WF_vars(DropWebReceive)

(***************************************************************************)
(* The same program with the requests the web interface accepts: with_json *)
(* takes a Universe with a "values" list of any length.                    *)
(***************************************************************************)
WireRequests ==
    {PlayFade(fade) : fade \in Fades}
        \cup {LoadUniverse(u) : u \in WireUniverses}
        \cup {Close}

\* WebInterface::run panics before it serves a request: the address does not
\* parse as a SocketAddr, or warp cannot bind it. The spawned task ends, the
\* WebInterface and the routes are dropped and with them every WebSend, and the
\* channel of web_receive is closed and empty. The runtime keeps the panic of a
\* spawned task to itself and the dispatch loop runs on ("no_senders").
WebInterfaceFails ==
    /\ pc = "running"
    /\ oneshot = <<>>
    /\ web_receive = <<>>
    /\ pc' = "no_senders"
    /\ UNCHANGED <<runs, submitted, store, backup_handler, web_receive, oneshot,
                   arrived, events, previous>>

\* run_once on the closed, empty channel: recv() gives None, the pattern
\* Some(request) does not match, the only branch of select! is disabled and,
\* there being no else branch, select! panics. The panic ends the process;
\* unwinds: the build unwinds and drops the SystemInterface, whose backup
\* handler sends its DEL, or it aborts and drops nothing.
RunOnceAllDisabled(unwinds, reachable) ==
    /\ pc = "no_senders"
    /\ pc' = "crashed"
    /\ LET dropped == IF unwinds THEN BackupHandler_drop(backup_handler, store, reachable)
                      ELSE [self |-> backup_handler, store |-> store, commands |-> <<>>]
       IN  /\ store' = dropped.store
           /\ previous' = Left("panicked", \E i \in DOMAIN dropped.commands :
                                               dropped.commands[i].ok)
    /\ backup_handler' = NoHandler
    /\ web_receive' = <<>>
    /\ oneshot' = <<>>
    /\ arrived' = <<>>
    /\ events' = <<>>
    /\ UNCHANGED <<runs, submitted>>

NextWire ==
    \/ \E address \in Addresses, server_location \in ServerLocations,
          connects \in BOOLEAN, reachable \in BOOLEAN :
            New(address, server_location, connects, reachable)
    \/ NewFailed
    \/ \E request \in WireRequests : Submit(request)
    \/ \E result \in DriverResults, reachable \in BOOLEAN, listening \in BOOLEAN :
            RunOnce(result, reachable, listening)
    \/ \E result \in DriverResults : RunOncePanics(result)
    \/ WebInterfaceFails
    \/ \E unwinds \in BOOLEAN, reachable \in BOOLEAN : RunOnceAllDisabled(unwinds, reachable)
    \/ DropWebReceive
    \/ DropDmxInterface
    \/ \E reachable \in BOOLEAN : DropBackupHandler(reachable)
    \/ Crash

SpecWire == Init /\ [][NextWire]_vars

(***************************************************************************)
(* The backup handler on its own, driven as mod tests of backup_handler.rs *)
(* drives it: new, then reload_backup, backup_universe and backup_fade in  *)
(* any order, then the drop, against a Redis server that may hold, under   *)
(* the key, a backup, nothing, or a string some other client has put.      *)
(***************************************************************************)
\* a string that is not YAML for a Universe
Garbage == [doc |-> "text", len |-> 0, list |-> {}]

\* a document "values:" with an entry that is no u8
NoBytes == [doc |-> "values", len |-> DMX_MAX, list |-> {<<1, 256>>}]

\* what the Redis server may hold under a key when the handler is built
StoredStrings == {Nil, Garbage, NoBytes, to_string(U0).string}

\* the fades a handler on its own is given: on a channel and off the range
HandlerFades ==
    {Fade(2, 150, NoDuration), Fade(0, 255, NoDuration), Fade(513, 255, NoDuration)}

InitHandler ==
    /\ pc = "off"
    /\ runs = 0
    /\ submitted = 0
    /\ store \in [Keys -> StoredStrings]
    /\ backup_handler = NoHandler
    /\ web_receive = <<>>
    /\ oneshot = <<>>
    /\ arrived = <<>>
    /\ events = <<>>
    /\ previous = [how |-> "none", address |-> "", connection |-> "None",
                   written |-> NoUniverse, deleted |-> FALSE]

\* the calls made on the handler since new
Calls == Cardinality({i \in DOMAIN events :
            events[i].kind \in {"reload_backup", "backup_fade", "backup_universe"}})

\* BackupHandler::new(address, server_location).await
HandlerNew(address, server_location, connects) ==
    /\ pc = "off"
    /\ pc' = "built"
    /\ backup_handler' = BackupHandler_new(address, server_location, connects)
    /\ UNCHANGED <<runs, submitted, store, web_receive, oneshot, arrived, events, previous>>

\* backup_handler.reload_backup()
HandlerReload(reachable) ==
    /\ pc = "built"
    /\ Calls < MaxCalls
    /\ LET reloaded == reload_backup(backup_handler, store, reachable)
       IN  /\ backup_handler' = reloaded.self
           /\ events' = (events \o reloaded.commands)
                  \o <<Ev("reload_backup", 0, NoFade, reloaded.returned.universe,
                          NoReply, reloaded.returned.some, "")>>
    /\ UNCHANGED <<pc, runs, submitted, store, web_receive, oneshot, arrived, previous>>

\* backup_handler.backup_fade(fade).await
HandlerBackupFade(fade, reachable) ==
    /\ pc = "built"
    /\ Calls < MaxCalls
    /\ LET done == backup_fade(backup_handler, store, fade, reachable)
       IN  /\ backup_handler' = done.self
           /\ store' = done.store
           /\ events' = (events \o <<Ev("backup_fade", 0, fade, NoUniverse, NoReply, TRUE, "")>>)
                  \o done.commands
    /\ UNCHANGED <<pc, runs, submitted, web_receive, oneshot, arrived, previous>>

\* backup_handler.backup_universe(universe).await
HandlerBackupUniverse(universe, reachable) ==
    /\ pc = "built"
    /\ Calls < MaxCalls
    /\ LET done == backup_universe(backup_handler, store, universe, reachable)
       IN  /\ backup_handler' = done.self
           /\ store' = done.store
           /\ events' = (events \o <<Ev("backup_universe", 0, NoFade, universe, NoReply, TRUE, "")>>)
                  \o done.commands
    /\ UNCHANGED <<pc, runs, submitted, web_receive, oneshot, arrived, previous>>

\* the handler goes out of scope: Drop::drop(&mut self)
HandlerDrop(reachable) ==
    /\ pc = "built"
    /\ pc' = "dropped"
    /\ LET dropped == BackupHandler_drop(backup_handler, store, reachable)
       IN  /\ backup_handler' = dropped.self
           /\ store' = dropped.store
           /\ events' = (events \o dropped.commands)
                  \o <<Ev("drop", 0, NoFade, NoUniverse, NoReply, TRUE, "backup_handler")>>
    /\ UNCHANGED <<runs, submitted, web_receive, oneshot, arrived, previous>>

\* drop(&mut self) is run a second time on the handler that was dropped
HandlerDropAgain(reachable) ==
    /\ pc = "dropped"
    /\ pc' = "dropped_again"
    /\ LET dropped == BackupHandler_drop(backup_handler, store, reachable)
       IN  /\ backup_handler' = dropped.self
           /\ store' = dropped.store
           /\ events' = (events \o dropped.commands)
                  \o <<Ev("drop", 0, NoFade, NoUniverse, NoReply, TRUE, "backup_handler")>>
    /\ UNCHANGED <<runs, submitted, web_receive, oneshot, arrived, previous>>

NextHandler ==
    \/ \E address \in Addresses, server_location \in ServerLocations, connects \in BOOLEAN :
            HandlerNew(address, server_location, connects)
    \/ \E reachable \in BOOLEAN : HandlerReload(reachable)
    \/ \E fade \in HandlerFades, reachable \in BOOLEAN : HandlerBackupFade(fade, reachable)
    \/ \E universe \in Universes, reachable \in BOOLEAN :
            HandlerBackupUniverse(universe, reachable)
    \/ \E reachable \in BOOLEAN : HandlerDrop(reachable)
    \/ \E reachable \in BOOLEAN : HandlerDropAgain(reachable)

SpecHandler == InitHandler /\ [][NextHandler]_vars

(***************************************************************************)
(* Readings of the trace that the properties below share.                  *)
(***************************************************************************)
\* the process is up: between new and the end of run
Alive == pc \in {"running", "stopped", "dropped_receive", "dropped_dmx"}

\* the places of a trace that hold an event of a kind, for a request
Places(trace, kind, id) ==
    {i \in DOMAIN trace : trace[i].kind = kind /\ trace[i].id = id}

\* the requests run_once has taken from the channel
Received(trace) == {trace[i].id : i \in {j \in DOMAIN trace : trace[j].kind = "recv"}}

\* the events a step added to the trace of a running instance
Added == IF Len(events') > Len(events) /\ SubSeq(events', 1, Len(events)) = events
         THEN SubSeq(events', Len(events) + 1, Len(events'))
         ELSE <<>>

(***************************************************************************)
(* C1: every command the dispatch loop takes from the channel (PlayFade,   *)
(* LoadUniverse, Close) has exactly one reply sent on its reply channel,   *)
(* whatever the outcome.                                                   *)
(***************************************************************************)
C1_ExactlyOneReplyPerCommand ==
    \A id \in Received(events) : Cardinality(Places(events, "reply", id)) = 1

(***************************************************************************)
(* C2: when the DMX interface rejects a PlayFade, backup_fade is not       *)
(* called, the backup handler and the Redis server are after the command   *)
(* as they were before it, and the reply sent is the failure that carries  *)
(* the error of the interface, which a caller that still listens receives. *)
(***************************************************************************)
C2_RejectedFadeNotMirrored ==
    [][\A i \in DOMAIN Added :
          (Added[i].kind = "play_fade" /\ ~Added[i].ok) =>
              /\ backup_handler' = backup_handler
              /\ store' = store
              /\ \A j \in DOMAIN Added : Added[j].kind \notin {"backup_fade", "SET"}
              /\ Len(Added) = i + 1
              /\ Added[i + 1].kind = "reply"
              /\ Added[i + 1].id = Added[i].id
              /\ Added[i + 1].reply = WebReply_failure(Added[i].text)
              /\ Added[i].text \in DriverErrors
              /\ Added[i + 1].ok =>
                    oneshot'[Added[i].id] =
                        [state |-> "sent", reply |-> WebReply_failure(Added[i].text)]
      ]_vars

\* a connected instance whose DMX interface has rejected a fade and whose
\* backup holds an earlier mutation
C2_Witness ==
    /\ backup_handler.connection = "Some"
    /\ store[Key(backup_handler.address)] # Nil
    /\ \E i \in DOMAIN events :
          /\ events[i].kind = "play_fade" /\ ~events[i].ok
          /\ oneshot[events[i].id].state = "sent"

(***************************************************************************)
(* C3: commands are processed in the order the channel received them.      *)
(***************************************************************************)
\* the requests run_once has taken, in the order it took them
Taken(trace) == SelectSeq(trace, LAMBDA e : e.kind = "recv")

\* the calls run_once has made to the DMX interface, in order
DriverCalls(trace) ==
    SelectSeq(trace, LAMBDA e : e.kind \in {"play_fade", "set_universe"} /\ e.id > 0)

\* the requests among the first n the channel accepted that go to the DMX interface
Forwarded(n) == SelectSeq(SubSeq(arrived, 1, n), LAMBDA r : r.request.type # "Close")

\* the calls to the DMX interface are those of the requests taken, in the
\* order the channel accepted them
InArrivalOrder ==
    /\ Len(Taken(events)) <= Len(arrived)
    /\ \A i \in DOMAIN Taken(events) : Taken(events)[i].id = arrived[i].reply_to
    /\ Len(DriverCalls(events)) = Len(Forwarded(Len(Taken(events))))
    /\ \A k \in DOMAIN DriverCalls(events) :
          LET call == DriverCalls(events)[k]
              sent == Forwarded(Len(Taken(events)))[k]
          IN  /\ call.id = sent.reply_to
              /\ sent.request.type = "PlayFade" =>
                    call.kind = "play_fade" /\ call.fade = sent.request.fade
              /\ sent.request.type = "LoadUniverse" =>
                    call.kind = "set_universe" /\ call.universe = sent.request.universe

\* PlayFade(1,10) then PlayFade(1,20) were accepted by the channel, in this
\* order, and both have been processed, and nothing after them
TwoFadesProcessed ==
    /\ Len(arrived) >= 2
    /\ arrived[1].request = PlayFade(Fade(1, 10, NoDuration))
    /\ arrived[2].request = PlayFade(Fade(1, 20, NoDuration))
    /\ Len(Taken(events)) = 2

\* the DMX interface was given value 10 and then value 20
TenBeforeTwenty ==
    /\ Len(DriverCalls(events)) = 2
    /\ DriverCalls(events)[1].fade.value = 10
    /\ DriverCalls(events)[2].fade.value = 20

\* C3 as stated: the DMX interface sees 10 before 20, the shadow universe of the
\* backup handler ends with channel 1 at 20, and the calls to the DMX interface
\* are in arrival order
C3_AsStated ==
    /\ InArrivalOrder
    /\ TwoFadesProcessed => TenBeforeTwenty /\ get(backup_handler.universe, 1) = 20

\* C3 as amended: the calls to the DMX interface are those of the requests
\* taken, in arrival order (a Close is not forwarded); after PlayFade(1,10) then
\* PlayFade(1,20) the DMX interface has seen 10 before 20, and the shadow
\* universe has channel 1 at 20 when the backup handler is connected and the
\* DMX interface accepted the second fade
C3_ArrivalOrder ==
    /\ InArrivalOrder
    /\ TwoFadesProcessed =>
          /\ TenBeforeTwenty
          /\ (backup_handler.connection = "Some" /\ DriverCalls(events)[2].ok) =>
                get(backup_handler.universe, 1) = 20

\* both fades were processed by a connected instance and the second was accepted
C3_Witness ==
    /\ TwoFadesProcessed
    /\ backup_handler.connection = "Some"
    /\ DriverCalls(events)[1].ok
    /\ DriverCalls(events)[2].ok
    /\ get(backup_handler.universe, 1) = 20

(***************************************************************************)
(* C4: at startup reload_backup is called before any command is taken from *)
(* the channel, and a universe it returns is given to the DMX interface    *)
(* as a whole, right after the reload, before the first command is         *)
(* processed: no command reaches the DMX interface ahead of it.            *)
(***************************************************************************)
C4_RecoveredStateFirst ==
    Alive =>
        \E r \in DOMAIN events :
            /\ events[r].kind = "reload_backup"
            /\ \A i \in DOMAIN events :
                  events[i].kind \in {"recv", "play_fade", "set_universe"} => i > r
            /\ events[r].ok =>
                  /\ Len(events) > r
                  /\ events[r + 1].kind = "set_universe"
                  /\ events[r + 1].id = 0
                  /\ events[r + 1].universe = events[r].universe
                  /\ \A i \in DOMAIN events :
                        (events[i].kind \in {"recv", "play_fade"}
                            \/ (events[i].kind = "set_universe" /\ events[i].id > 0))
                        => i > r + 1

\* an instance that recovered a universe with a level in it and has since
\* given a fade to the DMX interface
C4_Witness ==
    /\ pc = "running"
    /\ \E r \in DOMAIN events :
          /\ events[r].kind = "reload_backup"
          /\ events[r].ok
          /\ events[r].universe.levels # {}
    /\ \E i \in DOMAIN events : events[i].kind = "play_fade"

(***************************************************************************)
(* C5: with a connected backup handler and no failed write, after          *)
(* backup_universe(U) followed by any backup_fade calls and no teardown,   *)
(* reload_backup returns a universe in which every channel a fade targeted *)
(* holds the value of the last fade on it and every other channel holds    *)
(* the value U gave it.                                                    *)
(***************************************************************************)
\* reload_backup of a newly built, connected backup handler at an address, with
\* the server answering, as tests::backup_dmx and a restart make it
FreshReload(address) ==
    reload_backup(BackupHandler_new(address, "redis://127.0.0.1:6379", TRUE),
                  store, TRUE).returned

\* the place of the last backup_universe call of the trace (0 when there is none)
LastFull ==
    LET full == {i \in DOMAIN events : events[i].kind = "backup_universe"}
    IN  IF full = {} THEN 0 ELSE CHOOSE i \in full : \A j \in full : j <= i

\* the places of the backup_fade calls on a channel since the last backup_universe
FadesOn(channel) ==
    {i \in DOMAIN events : /\ i > LastFull
                           /\ events[i].kind = "backup_fade"
                           /\ events[i].fade.channel = channel}

\* what the claim says of a channel
Expected(channel) ==
    IF FadesOn(channel) = {}
    THEN get(events[LastFull].universe, channel)
    ELSE events[CHOOSE i \in FadesOn(channel) : \A j \in FadesOn(channel) : j <= i].fade.value

\* a connected instance that has made a backup_universe call and no failed write
FullThenFades ==
    /\ Alive
    /\ backup_handler.connection = "Some"
    /\ LastFull > 0
    /\ \A i \in DOMAIN events : events[i].kind = "SET" => events[i].ok

\* the channels a universe holds above 0
Lit(universe) == {entry[1] : entry \in universe.levels}

\* the channels the backup_fade calls since the last backup_universe targeted
Faded == {events[i].fade.channel :
             i \in {j \in DOMAIN events : j > LastFull /\ events[j].kind = "backup_fade"}}

Reloaded == CHOOSE r \in DOMAIN events : events[r].kind = "reload_backup"

\* this instance runs at the address of the instance before it
SameAddress == Alive /\ backup_handler.address = previous.address

\* C6 as stated
C6_AsStated ==
    /\ (pc = "exited" /\ previous.connection = "Some") =>
          /\ store[Key(previous.address)] = Nil
          /\ ~FreshReload(previous.address).some
    /\ (SameAddress /\ previous.how = "exited" /\ previous.connection = "Some") =>
          ~events[Reloaded].ok

\* C6 as amended: the same, when the server answered the DEL of the teardown
C6_NoBackupAfterTeardown ==
    /\ (pc = "exited" /\ previous.connection = "Some" /\ previous.deleted) =>
          /\ store[Key(previous.address)] = Nil
          /\ ~FreshReload(previous.address).some
    /\ (SameAddress /\ previous.how = "exited" /\ previous.connection = "Some"
            /\ previous.deleted) =>
          ~events[Reloaded].ok

\* a connected instance at the address of an instance that had written a
\* backup and was torn down: its reload asked the server and found nothing
C6_Witness ==
    /\ SameAddress
    /\ previous.how = "exited"
    /\ previous.deleted
    /\ previous.written # NoUniverse
    /\ backup_handler.connection = "Some"
    /\ \E i \in DOMAIN events : events[i].kind = "GET" /\ events[i].text = "answered"
    /\ ~events[Reloaded].ok

(***************************************************************************)
(* C7: when an instance that has written a backup crashes, the backup      *)
(* stays on the server; reload_backup of the next instance at the same     *)
(* address returns the universe the crashed instance wrote last; that      *)
(* universe becomes the shadow universe, so that every backup a following  *)
(* backup_fade writes keeps the recovered value of every other channel.    *)
(***************************************************************************)
\* the instance before this one crashed after it had written a backup
AfterCrash == previous.how = "crashed" /\ previous.written # NoUniverse

\* the backup of the crashed instance is on the server
BackupRemains ==
    (pc = "crashed" /\ AfterCrash) =>
        store[Key(previous.address)] = to_string(previous.written).string

\* the backups this instance wrote keep, on the channels no fade of this
\* instance had targeted, the values of the universe it recovered; as in C5,
\* the channels compared are those held above 0 on either side
RecoveredValuesKept ==
    (Alive /\ events[Reloaded].ok /\ LastFull = 0) =>
        \A i \in {j \in DOMAIN events : events[j].kind = "SET"} :
            LET faded == {events[k].fade.channel :
                             k \in {j \in 1..i : events[j].kind = "backup_fade"}}
            IN  /\ events[i].universe.len = events[Reloaded].universe.len
                /\ \A channel \in (Lit(events[i].universe)
                                      \cup Lit(events[Reloaded].universe)) \ faded :
                      get(events[i].universe, channel)
                          = get(events[Reloaded].universe, channel)

\* C7 as stated
C7_AsStated ==
    /\ BackupRemains
    /\ (SameAddress /\ AfterCrash) =>
          /\ events[Reloaded].ok
          /\ events[Reloaded].universe = previous.written
    /\ RecoveredValuesKept

\* C7 as amended: reload_backup returns the universe when the next instance is
\* connected and the server answers its GET
C7_CrashLeavesBackup ==
    /\ BackupRemains
    /\ (SameAddress /\ AfterCrash /\ backup_handler.connection = "Some"
            /\ \E i \in DOMAIN events : events[i].kind = "GET" /\ events[i].text = "answered") =>
          /\ events[Reloaded].ok
          /\ events[Reloaded].universe = previous.written
    /\ RecoveredValuesKept

\* an instance recovered the universe of a crashed one, with channel 2 above 0,
\* and has written a backup for a fade on another channel
C7_Witness ==
    /\ SameAddress
    /\ AfterCrash
    /\ events[Reloaded].ok
    /\ get(events[Reloaded].universe, 2) = 255
    /\ \E i \in DOMAIN events :
          /\ events[i].kind = "SET" /\ events[i].ok
          /\ get(events[i].universe, 2) = 255
          /\ events[i].universe # events[Reloaded].universe

(***************************************************************************)
(* C8: in an instance whose backup handler has no connection, backup_fade  *)
(* and backup_universe change nothing, reload_backup returns nothing and   *)
(* no command reaches the Redis server; and, with or without a connection, *)
(* the reply to a command is given by the command and by the result of the *)
(* DMX interface alone, so that the same commands with the same results    *)
(* get the same replies in both.                                           *)
(***************************************************************************)
\* the request an id was given to
RequestOf(id) == arrived[CHOOSE a \in DOMAIN arrived : arrived[a].reply_to = id].request

\* the replies run_once sends for a request, from the request and the result
\* of the DMX interface: none for a Close
ExpectedReplies(id) ==
    CASE RequestOf(id).type = "PlayFade" ->
             {IF events[p].ok THEN WebReply_success ELSE WebReply_failure(events[p].text) :
                 p \in Places(events, "play_fade", id)}
      [] RequestOf(id).type = "LoadUniverse" -> {WebReply_success}
      [] RequestOf(id).type = "Close" -> {}

\* the reply to each request is the expected one, sent before the next
\* request is taken
RepliesFollowDriver ==
    Alive =>
        \A id \in Received(events) :
            /\ {events[i].reply : i \in Places(events, "reply", id)} = ExpectedReplies(id)
            /\ Cardinality(Places(events, "reply", id)) = Cardinality(ExpectedReplies(id))
            /\ \A i \in Places(events, "reply", id), r \in Places(events, "recv", id) :
                  /\ r < i
                  /\ \A k \in r + 1..i : events[k].kind # "recv"

\* without a connection nothing is saved, asked or recovered
NoConnectionNoBackup ==
    (Alive /\ backup_handler.connection = "None") =>
        /\ backup_handler.universe = Universe_new
        /\ \A i \in DOMAIN events : events[i].kind \notin {"SET", "GET", "DEL"}
        /\ ~events[Reloaded].ok
        /\ Places(events, "set_universe", 0) = {}

FailedSets == {i \in DOMAIN events : events[i].kind = "SET" /\ ~events[i].ok}

C9_BackupFailureNotReported ==
    /\ [](Alive =>
            \A i \in FailedSets :
                /\ i > 1 /\ i < Len(events)
                /\ events[i - 1].kind \in {"backup_fade", "backup_universe"}
                /\ events[i - 1].kind = "backup_fade" =>
                      /\ events[i - 2].kind = "play_fade" /\ events[i - 2].ok
                /\ events[i + 1].kind = "reply"
                /\ events[i + 1].id = events[i - 1].id
                /\ events[i + 1].reply = WebReply_success
                /\ events[i + 1].ok =>
                      oneshot[events[i + 1].id] = [state |-> "sent", reply |-> WebReply_success])
    /\ [][(\E i \in DOMAIN Added : Added[i].kind = "SET" /\ ~Added[i].ok) =>
              pc' = "running"]_vars

\* the SET of a command failed, the caller has received the success, and the
\* loop has taken and answered the next command
C9_Witness ==
    /\ pc = "running"
    /\ \E i \in FailedSets :
          /\ oneshot[events[i + 1].id] = [state |-> "sent", reply |-> WebReply_success]
          /\ \E r \in i + 2..Len(events) :
                /\ events[r].kind = "recv"
                /\ Places(events, "reply", events[r].id) # {}

(***************************************************************************)
(* C10: a Close moves the loop from running to stopped, and the caller     *)
(* that sent it receives the success reply.                                *)
(***************************************************************************)
\* the Close requests run_once has taken
Closed == {id \in Received(events) : RequestOf(id).type = "Close"}

C10_CloseAnswered ==
    Alive =>
        \A id \in Closed :
            /\ pc # "running"
            /\ \E i \in Places(events, "reply", id) : events[i].reply = WebReply_success
            /\ oneshot[id].state # "closed"

(***************************************************************************)
(* C11: once a Close has been taken from the channel, no request queued    *)
(* behind it or sent after it is taken, played or backed up; the backup    *)
(* handler of a connected instance is dropped with one DEL, after which    *)
(* the Redis server holds nothing under the key of the instance.           *)
(***************************************************************************)
\* the places of the trace where run_once took a Close
CloseTaken == {i \in DOMAIN events : events[i].kind = "recv" /\ events[i].text = "Close"}

\* after a Close the trace holds the drops of the fields and the DEL only
NothingAfterClose ==
    \A i \in CloseTaken :
        \A j \in i + 1..Len(events) : events[j].kind \in {"drop", "DEL"}

\* the requests that were in the channel or sent when the loop had stopped
LeftBehind == {id \in DOMAIN oneshot : id \notin Received(events)}

\* the instance has exited after a Close, with a connection when it stopped
ClosedAndExited ==
    pc = "exited" /\ CloseTaken # {} /\ previous.connection = "Some"

\* the DEL of the teardown was sent, once
OneDel == Cardinality({i \in DOMAIN events : events[i].kind = "DEL"}) = 1

\* C11 as stated
C11_AsStated ==
    /\ NothingAfterClose
    /\ ClosedAndExited => (OneDel /\ store[Key(previous.address)] = Nil)

\* C11 as amended: the key holds nothing when the server answered the DEL
C11_StoppedIsTerminal ==
    /\ NothingAfterClose
    /\ ClosedAndExited =>
          /\ OneDel
          /\ previous.deleted => store[Key(previous.address)] = Nil

\* a connected instance has exited after a Close that had a PlayFade queued
\* behind it: the fade was never taken and its caller's channel is closed
C11_Witness ==
    /\ ClosedAndExited
    /\ previous.deleted
    /\ \E id \in LeftBehind :
          /\ oneshot[id].state = "closed"
          /\ \E a \in DOMAIN arrived :
                arrived[a].reply_to = id /\ arrived[a].request.type = "PlayFade"

(***************************************************************************)
(* C12: the backup is deleted by the drop of the backup handler only, with *)
(* one DEL per connected instance: backup_fade, backup_universe and        *)
(* reload_backup send no DEL, do not empty the key, and leave the handler  *)
(* with the connection they took.                                          *)
(***************************************************************************)
\* the places of the trace where a DEL was sent
Dels == {i \in DOMAIN events : events[i].kind = "DEL"}

\* every DEL stands between the drop of dmx_interface and the end of the drop
\* of backup_handler, and an instance sends at most one
DelAtTeardownOnly ==
    /\ Cardinality(Dels) <= 1
    /\ \A i \in Dels :
          /\ i > 1 /\ i < Len(events)
          /\ events[i - 1].kind = "drop" /\ events[i - 1].text = "dmx_interface"
          /\ events[i + 1].kind = "drop" /\ events[i + 1].text = "backup_handler"
          /\ i + 1 = Len(events)
    /\ pc = "exited" =>
          Cardinality(Dels) = (IF previous.connection = "Some" THEN 1 ELSE 0)

\* a handler built with a connection has it after new, whatever reload_backup
\* found, and the Redis server is as before
ConnectionAfterReload ==
    (pc \notin {"running", "stopped", "dropped_receive", "dropped_dmx"} /\ pc' = "running") =>
        /\ store' = store
        /\ (\E i \in DOMAIN events' : events'[i].kind = "GET") =>
              backup_handler'.connection = "Some"

\* while the instance lives, a step keeps the connection and does not empty
\* the key of the instance
ConnectionKept ==
    (Alive /\ pc' \in {"running", "stopped", "dropped_receive", "dropped_dmx"}) =>
        /\ backup_handler'.connection = backup_handler.connection
        /\ store[Key(backup_handler.address)] # Nil =>
              store'[Key(backup_handler.address)] # Nil

SecondDropDoesNothing ==
    pc = "dropped" =>
        /\ pc' = "dropped_again"
        /\ backup_handler' = backup_handler
        /\ store' = store
        /\ Len(events') = Len(events) + 1
        /\ events'[Len(events')].kind = "drop"

\* the handler had a connection when it was dropped: its trace has the DEL
DroppedTwiceConnected == pc = "dropped_again" /\ Dels # {}

\* C13 as stated
C13_AsStated ==
    /\ [][SecondDropDoesNothing]_vars
    /\ [](DroppedTwiceConnected =>
            (Cardinality(Dels) = 1 /\ store[Key(backup_handler.address)] = Nil))

\* C13 as amended: the key holds nothing when the server answered the DEL of
\* the first drop
C13_DropTwice ==
    /\ [][SecondDropDoesNothing]_vars
    /\ [](DroppedTwiceConnected =>
            /\ Cardinality(Dels) = 1
            /\ (\A i \in Dels : events[i].ok) => store[Key(backup_handler.address)] = Nil)

\* a handler that had written a backup was dropped, its DEL answered, and
\* dropped again
C13_Witness ==
    /\ DroppedTwiceConnected
    /\ \A i \in Dels : events[i].ok
    /\ \E i \in DOMAIN events : events[i].kind = "SET" /\ events[i].ok
    /\ store[Key(backup_handler.address)] = Nil

(***************************************************************************)
(* C14: when reload_backup reads, under the key of the handler, a string   *)
(* that cannot be parsed as a Universe, it returns Some of the universe of *)
(* 512 zeros, and that universe becomes the universe of the handler.       *)
(***************************************************************************)
\* the string under the key of the handler is there and is not a Universe
Unparsable ==
    /\ pc = "built"
    /\ store[Key(backup_handler.address)] # Nil
    /\ ~from_str(store[Key(backup_handler.address)]).ok

\* the step is a reload_backup whose GET returned the string
ReloadRead ==
    /\ Len(Added) = 2
    /\ Added[1].kind = "GET" /\ Added[1].ok
    /\ Added[2].kind = "reload_backup"

C14_UnparsableBackupGivesZeros ==
    [][(Unparsable /\ ReloadRead) =>
          /\ Added[2].ok
          /\ Added[2].universe = Universe_new
          /\ Added[2].universe.len = DMX_MAX
          /\ \A channel \in {1, 2, DMX_MAX} : get(Added[2].universe, channel) = 0
          /\ backup_handler'.universe = Added[2].universe
          /\ backup_handler'.connection = "Some"
          /\ store' = store
      ]_vars

\* a handler whose universe held values, from a backup_universe whose SET was
\* not answered, has reloaded a string that is no Universe and holds zeros
C14_Witness ==
    /\ Unparsable
    /\ events # <<>>
    /\ events[Len(events)].kind = "reload_backup"
    /\ events[Len(events)].ok
    /\ backup_handler.universe = Universe_new
    /\ \E i \in DOMAIN events : events[i].kind = "backup_universe"

(***************************************************************************)
(* C15: instances at different addresses on one Redis server keep apart:   *)
(* reload_backup of an instance never returns a backup an instance at      *)
(* another address wrote, and the SETs and the DEL of an instance leave    *)
(* what is under the key of another address as it is.                      *)
(***************************************************************************)
\* the address of the instance that takes the step
Acting == IF Alive THEN backup_handler.address ELSE backup_handler'.address

\* a step leaves the backups of the other addresses alone
OtherBackupsUnchanged ==
    \A address \in Addresses :
        address # Acting => store'[Key(address)] = store[Key(address)]

\* what new reloads is what is under the key of its own address
ReloadsOwnKey ==
    (~Alive /\ pc' = "running" /\ events'[Len(events')].kind \in {"reload_backup", "set_universe"}) =>
        LET reloaded == CHOOSE r \in DOMAIN events' : events'[r].kind = "reload_backup"
        IN  events'[reloaded].ok =>
                /\ store[Key(backup_handler'.address)] # Nil
                /\ events'[reloaded].universe
                       = from_str(store[Key(backup_handler'.address)]).universe

\* this is the second instance, and the first one ran at another address
SecondAtOtherAddress ==
    /\ Alive
    /\ runs = 2
    /\ previous.how # "none"
    /\ previous.address # backup_handler.address

C15_AddressesKeepApart ==
    /\ [][OtherBackupsUnchanged /\ ReloadsOwnKey]_vars
    /\ [](SecondAtOtherAddress => ~events[Reloaded].ok)

\* an instance started while the server held the backup of a crashed instance
\* at another address: its GET was answered with nothing, it has written its
\* own backup, and the backup of the other address is as it was left
C15_Witness ==
    /\ SecondAtOtherAddress
    /\ previous.how = "crashed"
    /\ previous.written # NoUniverse
    /\ \E i \in DOMAIN events : events[i].kind = "GET" /\ events[i].text = "answered"
    /\ \E i \in DOMAIN events : events[i].kind = "SET" /\ events[i].ok
    /\ store[Key(previous.address)] = to_string(previous.written).string
    /\ store[Key(backup_handler.address)] # store[Key(previous.address)]

(***************************************************************************)
(* C16: when the caller of a request has dropped the receiving end of its  *)
(* reply channel, the send of the reply fails and nothing else changes:    *)
(* the calls on the DMX interface and on the backup handler, and what the  *)
(* Redis server holds, are those of the same request with a caller that    *)
(* listens, and the loop keeps running and takes the next request.         *)
(***************************************************************************)
\* what run_once does for a request, after the recv
Handled(request, result, reachable, listening) ==
    CASE request.request.type = "PlayFade" ->
             run_once_PlayFade(Sys, request.reply_to, request.request.fade,
                               result, reachable, listening)
      [] request.request.type = "LoadUniverse" ->
             run_once_LoadUniverse(Sys, request.reply_to, request.request.universe,
                                   reachable, listening)
      [] request.request.type = "Close" -> run_once_Close(Sys, request.reply_to)

\* a trace without the mark of whether the reply reached its caller
Unmarked(trace) ==
    [i \in DOMAIN trace |->
        IF trace[i].kind = "reply" THEN [trace[i] EXCEPT !.ok = TRUE] ELSE trace[i]]

\* for the request at the head of the channel, whatever the DMX interface and
\* the Redis server answer, the caller that has gone away changes the reply
\* channel only
SameWithoutCaller ==
    (pc = "running" /\ web_receive # <<>>) =>
        \A result \in DriverResults, reachable \in BOOLEAN :
            LET live == Handled(recv(web_receive), result, reachable, TRUE)
                gone == Handled(recv(web_receive), result, reachable, FALSE)
            IN  /\ gone.backup_handler = live.backup_handler
                /\ gone.store = live.store
                /\ Unmarked(gone.events) = Unmarked(live.events)

\* a step whose reply did not reach its caller leaves the loop running
RunsOnWithoutCaller ==
    (\E i \in DOMAIN Added : Added[i].kind = "reply" /\ ~Added[i].ok) =>
        /\ pc' = "running"
        /\ \E i \in DOMAIN Added :
              /\ Added[i].kind = "reply" /\ ~Added[i].ok
              /\ oneshot'[Added[i].id].state = "abandoned"
              /\ \E j \in 1..i - 1 :
                    Added[j].kind \in {"play_fade", "set_universe"} /\ Added[j].id = Added[i].id

C16_AbandonedReplyChangesNothing ==
    /\ []SameWithoutCaller
    /\ [][RunsOnWithoutCaller]_vars

\* the caller of a LoadUniverse had gone away: the universe was loaded and
\* backed up all the same, and the loop has taken and answered the next request
C16_Witness ==
    /\ pc = "running"
    /\ \E i, j \in DOMAIN events :
          /\ events[i].kind = "reply" /\ ~events[i].ok
          /\ events[i - 1].kind = "SET" /\ events[i - 1].ok
          /\ events[i - 2].kind = "backup_universe"
          /\ store[Key(backup_handler.address)] # Nil
          /\ j > i
          /\ events[j].kind = "reply" /\ events[j].ok

(***************************************************************************)
(* C17: a LoadUniverse is given to the DMX interface with set_universe,    *)
(* then backed up with backup_universe, then answered with the success;    *)
(* backup_universe replaces the universe of the handler by the given one,  *)
(* so that the handler and the key hold the given universe and no value of *)
(* an earlier fade.                                                        *)
(***************************************************************************)
\* the step is run_once for a LoadUniverse: recv, set_universe,
\* backup_universe, the SET of a handler with a connection, reply
LoadsUniverse ==
    /\ Len(Added) >= 4
    /\ Added[1].kind = "recv" /\ Added[1].text = "LoadUniverse"

\* the order of the calls, and the success at the end
LoadedInOrder ==
    /\ Added[2].kind = "set_universe" /\ Added[2].id = Added[1].id
    /\ Added[2].universe = RequestOf(Added[1].id).universe
    /\ Added[3].kind = "backup_universe" /\ Added[3].id = Added[1].id
    /\ Added[3].universe = Added[2].universe
    /\ Len(Added) = (IF backup_handler.connection = "Some" THEN 5 ELSE 4)
    /\ backup_handler.connection = "Some" => Added[4].kind = "SET"
    /\ Added[Len(Added)].kind = "reply" /\ Added[Len(Added)].id = Added[1].id
    /\ Added[Len(Added)].reply = WebReply_success

\* C17 as stated
C17_AsStated ==
    [][LoadsUniverse =>
          /\ LoadedInOrder
          /\ backup_handler'.universe = Added[2].universe
          /\ store'[Key(backup_handler.address)] = to_string(Added[2].universe).string
      ]_vars

\* C17 as amended: the handler holds the universe when it has a connection,
\* and the key when the server answered the SET
C17_LoadUniverseReplaces ==
    [][LoadsUniverse =>
          /\ LoadedInOrder
          /\ backup_handler.connection = "Some" =>
                /\ backup_handler'.universe = Added[2].universe
                /\ Added[4].universe = Added[2].universe
                /\ Added[4].ok =>
                      /\ store'[Key(backup_handler.address)]
                             = to_string(Added[2].universe).string
                      /\ from_str(store'[Key(backup_handler.address)]).universe
                             = Added[2].universe
      ]_vars

\* after a fade on channel 5 was backed up, a universe with channel 5 at 0 was
\* loaded, backed up and answered: the handler and the key hold 0 for channel 5
C17_Witness ==
    /\ pc = "running"
    /\ \E f, u \in DOMAIN events :
          /\ events[f].kind = "SET" /\ events[f].ok /\ get(events[f].universe, 5) = 255
          /\ f < u
          /\ events[u].kind = "backup_universe" /\ get(events[u].universe, 5) = 0
          /\ events[u + 1].kind = "SET" /\ events[u + 1].ok
          /\ events[u + 2].kind = "reply" /\ is_success(events[u + 2].reply)
          /\ backup_handler.universe = events[u].universe
          /\ get(from_str(store[Key(backup_handler.address)]).universe, 5) = 0

(***************************************************************************)
(* C18: for a PlayFade the DMX interface takes, backup_fade is called      *)
(* after play_fade has returned Ok, and the success is sent after          *)
(* backup_fade has returned; no SET for a fade is sent before the DMX      *)
(* interface has taken the fade.                                           *)
(***************************************************************************)
\* the places of the trace where a fade was taken by the DMX interface
FadesTaken == {i \in DOMAIN events : events[i].kind = "play_fade" /\ events[i].ok}

\* the places of the trace where backup_fade was called
FadesBackedUp == {i \in DOMAIN events : events[i].kind = "backup_fade"}

\* the SET of a backup_fade call, when it sent one
SetOf(i) == IF i < Len(events) /\ events[i + 1].kind = "SET" THEN {i + 1} ELSE {}

C18_BackupAfterDriver ==
    Alive =>
        /\ \A p \in FadesTaken :
              /\ p + 1 \in FadesBackedUp
              /\ events[p + 1].id = events[p].id /\ events[p + 1].fade = events[p].fade
              /\ \E r \in Places(events, "reply", events[p].id) :
                    /\ r = p + 2 + Cardinality(SetOf(p + 1))
                    /\ events[r].reply = WebReply_success
        /\ \A b \in FadesBackedUp :
              /\ b - 1 \in FadesTaken
              /\ events[b - 1].id = events[b].id
        /\ \A i \in DOMAIN events :
              (events[i].kind = "SET" /\ events[i - 1].kind = "backup_fade") =>
                  /\ i - 2 \in FadesTaken
                  /\ \A r \in Places(events, "reply", events[i - 1].id) : r > i

\* a connected instance has played a fade, then written its backup, then
\* sent the success to a caller that listened
C18_Witness ==
    /\ Alive
    /\ \E p \in FadesTaken :
          /\ SetOf(p + 1) # {}
          /\ events[p + 2].ok
          /\ get(events[p + 2].universe, events[p].fade.channel) = events[p].fade.value
          /\ events[p + 3].kind = "reply" /\ events[p + 3].ok
          /\ oneshot[events[p].id] = [state |-> "sent", reply |-> WebReply_success]

(***************************************************************************)
(* C19: every Universe the program holds has 512 values: the ones of       *)
(* Universe::new, the ones the web interface hands over in a LoadUniverse, *)
(* the universe of the backup handler and the ones reload_backup returns;  *)
(* and no get or set on them fails.                                        *)
(***************************************************************************)
\* the universes of the requests in the channel
Queued == {web_receive[i].request.universe :
              i \in {j \in DOMAIN web_receive : web_receive[j].request.type = "LoadUniverse"}}

\* the universes reload_backup returned and the ones given to set_universe
\* and to backup_universe
Handed == {events[i].universe :
              i \in {j \in DOMAIN events :
                        \/ events[j].kind \in {"set_universe", "backup_universe"}
                        \/ events[j].kind = "reload_backup" /\ events[j].ok}}

\* the universes the program holds
Held == {Universe_new} \cup Queued \cup Handed
            \cup (IF Alive THEN {backup_handler.universe} ELSE {})

C19_Always512 ==
    \A universe \in Held :
        /\ universe.len = DMX_MAX
        /\ \A channel \in {0, 1, universe.len + 1, DMX_MAX, DMX_MAX + 1} :
              ~get_panics(universe, channel) /\ ~set_panics(universe, channel)

(***************************************************************************)
(* C20: for a channel that is not one of 1..512, 0 and 513 among them, and *)
(* any value, get returns 0 and set leaves the universe as it is.          *)
(***************************************************************************)
\* channels off the range: 0, the two above it, and large ones, up to the
\* largest number the checker holds (a u32 goes to 4294967295)
OutOfRange == {0, DMX_MAX + 1, DMX_MAX + 2, 65536, 2147483647}

\* values of a u8
SomeValues == {0, 1, 150, 255}

\* get and set on the universe of the handler
OffRangeOnHandler ==
    pc = "built" =>
        \A channel \in OutOfRange :
            /\ get(backup_handler.universe, channel) = 0
            /\ \A value \in SomeValues :
                  /\ set(backup_handler.universe, channel, value) = backup_handler.universe
                  /\ \A other \in {1, 2, DMX_MAX} :
                        get(set(backup_handler.universe, channel, value), other)
                            = get(backup_handler.universe, other)

\* a backup_fade for a channel off the range, by a handler with a connection,
\* leaves the universe of the handler as it is and sends it as it is
OffRangeFadeKeepsUniverse ==
    (/\ pc = "built"
     /\ Len(Added) = 2
     /\ Added[1].kind = "backup_fade"
     /\ Added[1].fade.channel \in OutOfRange) =>
        /\ backup_handler'.universe = backup_handler.universe
        /\ Added[2].kind = "SET"
        /\ Added[2].universe = backup_handler.universe

C20_OffRangeChannels ==
    /\ []OffRangeOnHandler
    /\ [][OffRangeFadeKeepsUniverse]_vars

\* a handler that holds channels 1 and 2 at 255 was given a fade to 255 on
\* channel 513 and has written the universe it held
C20_Witness ==
    /\ pc = "built"
    /\ Len(events) >= 2
    /\ events[Len(events) - 1].kind = "backup_fade"
    /\ events[Len(events) - 1].fade.channel = DMX_MAX + 1
    /\ events[Len(events)].kind = "SET" /\ events[Len(events)].ok
    /\ events[Len(events)].universe = U0
    /\ backup_handler.universe = U0
    /\ get(backup_handler.universe, DMX_MAX + 1) = 0

(***************************************************************************)
(* C21: for a channel of 1..512 and any value, get of the channel after a  *)
(* set of it returns the value, and get of every other channel returns     *)
(* what it returned before.                                                *)
(***************************************************************************)
\* channels of the range: its ends, and the ones the fades and U0 use
InRange == {1, 2, 5, DMX_MAX - 1, DMX_MAX}

\* set and get on a universe: neither fails, get reads what set wrote and the
\* other channels are as before
SetThenGet(universe) ==
    \A channel \in InRange :
        /\ ~set_panics(universe, channel)
        /\ ~get_panics(universe, channel)
        /\ \A value \in SomeValues :
              /\ get(set(universe, channel, value), channel) = value
              /\ \A other \in InRange \ {channel} :
                    get(set(universe, channel, value), other) = get(universe, other)

\* on the universe of the backup handler, the one backup_fade calls set on
C21_SetThenGet == Alive => SetThenGet(backup_handler.universe)

(***************************************************************************)
(* C22: the backup handler has a connection or has none from new to its    *)
(* drop: none when no server location was given or the connection failed,  *)
(* in which case new and the start of the program succeed all the same, a  *)
(* connection otherwise; and backup_fade, backup_universe and              *)
(* reload_backup leave it so, whether they succeed or fail.                *)
(***************************************************************************)
\* what new decides, for every address, location and result of the connection
ModeChosenAtNew ==
    \A address \in Addresses, server_location \in ServerLocations, connects \in BOOLEAN :
        LET handler == BackupHandler_new(address, server_location, connects)
        IN  /\ handler.connection
                  = (IF server_location # NoLocation /\ connects THEN "Some" ELSE "None")
            /\ handler.address = address
            /\ handler.universe = Universe_new
            /\ \A reachable \in BOOLEAN :
                  SystemInterface_new(address, server_location, connects, reachable)
                      .backup_handler.connection = handler.connection

\* a call on the handler leaves the connection as new made it
ModeKeptByCalls ==
    (pc = "built" /\ pc' = "built") =>
        backup_handler'.connection = backup_handler.connection

Dropped(field) == CHOOSE i \in DOMAIN events : events[i].kind = "drop" /\ events[i].text = field

C23_ReleasedInReverse ==
    pc = "exited" =>
        /\ Dropped("backup_handler") < Dropped("dmx_interface")
        /\ Dropped("dmx_interface") < Dropped("web_receive")
        /\ \A i \in Dels : i < Dropped("dmx_interface")

(***************************************************************************)
(* C24: with the dispatch task scheduled, no caller waits for ever on      *)
(* rx.await: its reply arrives or it sees its reply channel closed, also   *)
(* when its request was queued behind a Close or sent after the loop had   *)
(* stopped.                                                                *)
(***************************************************************************)
\* the caller of a request waits on rx.await
Waiting(id) == id \in DOMAIN oneshot /\ oneshot[id].state = "waiting"

C24_NoCallerWaitsForEver ==
    \A id \in 1..MaxCommands : Waiting(id) ~> ~Waiting(id)

\* the loop has stopped on a Close whose caller saw its channel closed, and
\* the caller of a request it left in the channel saw the same
C24_Witness ==
    /\ pc = "dropped_receive"
    /\ \E id \in Closed : oneshot[id].state = "closed"
    /\ \E id \in LeftBehind :
          /\ oneshot[id].state = "closed"
          /\ \E a \in DOMAIN arrived : arrived[a].reply_to = id

(***************************************************************************)
(* C25: a command is completed before run_once takes the next one from the *)
(* channel: in every trace the call of the DMX interface, the call of the  *)
(* backup handler with its SET and the reply of a command stand together,  *)
(* in that order, between the recv of the command and the next recv, and   *)
(* nothing of another command stands among them.                           *)
(***************************************************************************)
\* the places where run_once took a request
Recvs == {i \in DOMAIN events : events[i].kind = "recv"}

\* the last place of the part of the trace that starts with the recv at i: the
\* place before the next recv or before the first drop of the teardown
BlockEnd(i) ==
    LET later == {j \in DOMAIN events : j > i /\ events[j].kind \in {"recv", "drop"}}
    IN  IF later = {} THEN Len(events)
        ELSE (CHOOSE j \in later : \A k \in later : j <= k) - 1

\* what run_once does for the request taken at i is all there, in the order of
\* the code, and ends with the reply
Completed(i) ==
    LET id == events[i].id
        last == BlockEnd(i)
        type == events[i].text
    IN  CASE type = "PlayFade" ->
                 /\ last >= i + 2
                 /\ events[i + 1].kind = "play_fade" /\ events[i + 1].id = id
                 /\ IF events[i + 1].ok
                    THEN /\ events[i + 2].kind = "backup_fade" /\ events[i + 2].id = id
                         /\ last \in {i + 3, i + 4}
                         /\ last = i + 4 => events[i + 3].kind = "SET"
                    ELSE last = i + 2
                 /\ events[last].kind = "reply" /\ events[last].id = id
          [] type = "LoadUniverse" ->
                 /\ last >= i + 3
                 /\ events[i + 1].kind = "set_universe" /\ events[i + 1].id = id
                 /\ events[i + 2].kind = "backup_universe" /\ events[i + 2].id = id
                 /\ last \in {i + 3, i + 4}
                 /\ last = i + 4 => events[i + 3].kind = "SET"
                 /\ events[last].kind = "reply" /\ events[last].id = id
          [] OTHER -> last = i

\* nothing of the request taken at i stands outside its part of the trace
NotInterleaved(i) ==
    \A j \in DOMAIN events :
        events[j].id = events[i].id /\ events[j].id # 0 => j >= i /\ j <= BlockEnd(i)

\* between two steps no request that was taken is still being worked on: its
\* caller has its reply, or went away, or it was the Close
NoneInWork ==
    \A id \in Received(events) :
        RequestOf(id).type # "Close" => oneshot[id].state \in {"sent", "abandoned"}

C25_OneCommandAtATime ==
    Alive => /\ \A i \in Recvs : Completed(i) /\ NotInterleaved(i)
             /\ NoneInWork

\* two requests were worked off one after the other, each with its SET
C25_Witness ==
    /\ pc = "running"
    /\ Len(arrived) = 2
    /\ web_receive = <<>>
    /\ \E i, j \in Recvs :
          /\ BlockEnd(i) = i + 4 /\ j = i + 5 /\ BlockEnd(j) = j + 4
          /\ events[i].text = "PlayFade" /\ events[j].text = "LoadUniverse"

(***************************************************************************)
(* C26: with a connection, every SET that succeeds stores the whole        *)
(* universe the backup handler holds: after it the entry of the store is   *)
(* that universe, and what a backup call changed whose own SET failed is   *)
(* in the entry after the next SET that succeeds.                          *)
(***************************************************************************)
\* the places of the backup calls whose SET failed
FailedBackups ==
    {i \in DOMAIN events : /\ events[i].kind \in {"backup_fade", "backup_universe"}
                           /\ i < Len(events)
                           /\ events[i + 1].kind = "SET" /\ ~events[i + 1].ok}

\* the places of the SETs that succeeded
GoodSets == {j \in DOMAIN events : events[j].kind = "SET" /\ events[j].ok}

\* a backup call between the places i and j gave the channel a value of its own
Overwritten(i, j, channel) ==
    \E k \in (i + 1)..j :
        \/ events[k].kind = "backup_universe"
        \/ events[k].kind = "backup_fade" /\ events[k].fade.channel = channel

\* what the backup call at i changed, as far as no later call changed it
\* again, is in the universe the SET at j stored
Carried(i, j) ==
    IF events[i].kind = "backup_fade"
    THEN ~Overwritten(i, j, events[i].fade.channel) =>
             get(events[j].universe, events[i].fade.channel) = events[i].fade.value
    ELSE /\ ~Overwritten(i, j, 0) => events[j].universe.len = events[i].universe.len
         /\ \A channel \in Lit(events[i].universe) \cup Lit(events[j].universe) :
               ~Overwritten(i, j, channel) =>
                   get(events[j].universe, channel) = get(events[i].universe, channel)

FailedWriteNotLost ==
    Alive => \A i \in FailedBackups : \A j \in GoodSets : i < j => Carried(i, j)

\* a step whose SET succeeded leaves the universe of the handler in the store
WriteStoresShadow ==
    (Alive /\ Added # <<>> /\ \E k \in DOMAIN Added : Added[k].kind = "SET" /\ Added[k].ok) =>
        LET entry == store'[Key(backup_handler'.address)]
        IN  /\ entry # Nil
            /\ entry = to_string(backup_handler'.universe).string
            /\ from_str(entry).ok
            /\ from_str(entry).universe = backup_handler'.universe
            /\ \A k \in DOMAIN Added :
                  Added[k].kind = "SET" => Added[k].universe = backup_handler'.universe

C26_SuccessfulWriteStoresAll ==
    /\ []FailedWriteNotLost
    /\ [][WriteStoresShadow]_vars

\* the SET of a fade of channel 1 failed, the SET of a fade of channel 5
\* succeeded, and the entry holds both fades
C26_Witness ==
    /\ pc = "running"
    /\ \E i \in FailedBackups : \E j \in GoodSets :
          /\ i < j
          /\ events[i].kind = "backup_fade" /\ events[i].fade = Fade(1, 10, NoDuration)
          /\ events[j - 1].kind = "backup_fade" /\ events[j - 1].fade = Fade(5, 255, NoDuration)
    /\ store[Key(backup_handler.address)] # Nil
    /\ LET stored == from_str(store[Key(backup_handler.address)]).universe
       IN  get(stored, 1) = 10 /\ get(stored, 5) = 255

(***************************************************************************)
(* C27: reload_backup never writes or deletes the entry of the store. A    *)
(* backup found at the start stays in the store as it was found until a    *)
(* SET or the DEL of the teardown succeeds, so that an instance that       *)
(* crashes before any of them leaves the same backup to the next start.    *)
(***************************************************************************)
\* an instance that reloaded a backup and has since had no SET and no DEL
\* that succeeded
HoldsOrphan ==
    /\ Alive
    /\ \E r \in DOMAIN events : events[r].kind = "reload_backup" /\ events[r].ok
    /\ \A i \in DOMAIN events : events[i].kind \in {"SET", "DEL"} => ~events[i].ok

\* the entry is still the backup that was reloaded
OrphanKept ==
    HoldsOrphan =>
        /\ store[Key(backup_handler.address)] # Nil
        /\ store[Key(backup_handler.address)] = to_string(events[Reloaded].universe).string
        /\ FreshReload(backup_handler.address).some
        /\ FreshReload(backup_handler.address).universe = events[Reloaded].universe

\* neither the start of an instance, with its reload, nor a crash changes the
\* store
StartAndCrashLeaveStore ==
    (pc' = "crashed" \/ (pc # "running" /\ pc' = "running")) => store' = store

C27_ReloadLeavesBackup ==
    /\ []OrphanKept
    /\ [][StartAndCrashLeaveStore]_vars

\* the second instance was connected, wrote nothing and crashed, and the
\* backup the first instance left is still there for the next start
C27_Witness ==
    /\ pc = "crashed"
    /\ runs = 2
    /\ previous.how = "crashed"
    /\ previous.connection = "Some"
    /\ previous.written = NoUniverse
    /\ store[Key(previous.address)] # Nil
    /\ FreshReload(previous.address).some
    /\ FreshReload(previous.address).universe # Universe_new

(***************************************************************************)
(* C28: the loop of run leaves the running state only when run_once took a *)
(* Close from the channel. An error of the DMX interface, a SET that       *)
(* failed, a reply nobody received, an empty channel and a channel closed  *)
(* because every WebSend was dropped neither stop the loop nor end the     *)
(* process. (A process killed from outside is not the loop's doing.)       *)
(***************************************************************************)
\* the loop of run is running
LoopRunning == pc \in {"running", "no_senders"}

\* the step took a Close from the channel
TookClose ==
    /\ Added # <<>>
    /\ Added[1].kind = "recv" /\ Added[1].text = "Close"

LeavesOnlyOnClose ==
    (LoopRunning /\ pc' \notin {"running", "no_senders"}) =>
        \/ pc' = "stopped" /\ TookClose
        \/ pc' = "crashed" /\ previous'.how = "crashed"

C28_LeavesOnlyOnClose == [][LeavesOnlyOnClose]_vars

=============================================================================
